---------------------------- MODULE Spec2Model ----------------------------
(***************************************************************************)
(* A model of the logging utilities of the daily ELT process:              *)
(*   - CodeSectionTimer (src/src/log.py), the named-section timer;         *)
(*   - log_function_or_method_call (src/src/log.py), the call logger, and  *)
(*     the extraction functions it decorates (src/src/extract.py);         *)
(*   - create_default_logger (src/src/log.py);                             *)
(*   - the entrypoint script (src/main.py).                                *)
(*                                                                         *)
(* Python's None is the empty tuple and a present value v is <<v>>, so     *)
(* that an Optional field always holds a tuple.  Time is read from a       *)
(* monotonic clock that is sampled in whole seconds.  A log message is the *)
(* rendered string handed to logger.log; emitting means calling            *)
(* logger.log (the level threshold of the logging library is not part of   *)
(* this repository and is not modelled).                                   *)
(***************************************************************************)
EXTENDS Integers, Sequences, FiniteSets, TLC

VARIABLES
    code_section_timer, \* the CodeSectionTimer instance: logger, sections, current_section
    clock,              \* the value time.perf_counter() returns now
    log,                \* the records handed to logger.log, in order
    result,             \* the outcome of the last call: what was called, what it raised or returned
    stack,              \* the active invocations of wrapper_log_function_call, innermost last
    decorated,          \* the arguments log_function_or_method_call was given, per decorated function
    loggers,            \* logging's registry of named loggers: level and handlers
    pc                  \* the position of the entrypoint script

vars == <<code_section_timer, clock, log, result, stack, decorated, loggers, pc>>

----------------------------------------------------------------------------
(* Bounds *)

MaxClock == 3

----------------------------------------------------------------------------
(* Optional values *)

None == <<>>

Some(v) == <<v>>

Get(o) == o[1]

----------------------------------------------------------------------------
(* Number formatting, as Python's format specification renders it *)

\* n / d rounded to the nearest integer, ties to the even neighbour
RoundHalfEven(n, d) ==
    LET q == n \div d
        r == n % d
    IN  IF 2 * r < d THEN q
        ELSE IF 2 * r > d THEN q + 1
        ELSE IF q % 2 = 0 THEN q ELSE q + 1

\* the decimal digits of n, left-padded with zeros to width w (w <= 3)
Pad(n, w) ==
    IF w = 3 /\ n < 10 THEN "00" \o ToString(n)
    ELSE IF (w = 3 /\ n < 100) \/ (w = 2 /\ n < 10) THEN "0" \o ToString(n)
    ELSE ToString(n)

\* format(n, ",") for a natural number n < 10^6
Thousands(n) ==
    IF n < 1000 THEN ToString(n)
    ELSE ToString(n \div 1000) \o "," \o Pad(n % 1000, 3)

\* f"{seconds_elapsed:,.0f}" for a whole number of seconds
FormatSeconds(seconds_elapsed) == Thousands(RoundHalfEven(seconds_elapsed, 1))

\* f"{(seconds_elapsed/60):,.2f}"
FormatMinutes(seconds_elapsed) ==
    LET hundredths == RoundHalfEven(seconds_elapsed * 100, 60)
    IN  Thousands(hundredths \div 100) \o "." \o Pad(hundredths % 100, 2)

----------------------------------------------------------------------------
(* Log records *)

LogRecord(logger, level, msg) == [logger |-> logger, level |-> level, msg |-> msg]

StartedMsg(name) == "Started section '" \o name \o "'"

FinishedPrefix(name) == "Finished section '" \o name \o "' (total runtime "

FinishedMsg(name, seconds_elapsed) ==
    FinishedPrefix(name)
        \o FormatSeconds(seconds_elapsed) \o " seconds = "
        \o FormatMinutes(seconds_elapsed) \o " minutes)"

IsStarted(m, name) == m = StartedMsg(name)

IsFinished(m, name) ==
    /\ Len(m) >= Len(FinishedPrefix(name))
    /\ SubSeq(m, 1, Len(FinishedPrefix(name))) = FinishedPrefix(name)

----------------------------------------------------------------------------
(* CodeSectionTimer *)

SectionNames == {"X", "Y"}

LoggerNames == {"__main__"}

Levels == {"INFO", "ERROR"}

\* CodeSectionTimer.__init__
NewTimer == [logger |-> None, sections |-> <<>>, current_section |-> None]

\* the outcome of a method: the timer after it, the records it emitted, what it raised
Outcome(T, emitted, raised) == [timer |-> T, emitted |-> emitted, raised |-> raised]

\* CodeSectionTimer.section
section(T, section_name) ==
    LET secs == IF section_name \in DOMAIN T.sections
                THEN T.sections
                ELSE [n \in DOMAIN T.sections \cup {section_name} |->
                        IF n \in DOMAIN T.sections THEN T.sections[n]
                        ELSE [start_time |-> None, end_time |-> None]]
    IN  [T EXCEPT !.sections = secs, !.current_section = Some(section_name)]

\* start without its already-started check
start_Unchecked(T, loglevel, now) ==
    IF T.current_section = None \/ Get(T.current_section) \notin DOMAIN T.sections
    THEN Outcome(T, <<>>, Some("KeyError"))
    ELSE LET cur == Get(T.current_section)
             T1 == [T EXCEPT !.sections[cur].start_time = Some(now)] IN
         IF T.logger = None
         THEN Outcome(T1, <<>>, Some("AttributeError"))
         ELSE Outcome(T1,
                      <<LogRecord(Get(T.logger), loglevel, StartedMsg(cur))>>,
                      None)

\* CodeSectionTimer.start, called when perf_counter() reads now
start(T, loglevel, now) ==
    IF T.current_section = None \/ Get(T.current_section) \notin DOMAIN T.sections
    THEN Outcome(T, <<>>, Some("KeyError"))
    ELSE LET cur == Get(T.current_section) IN
         IF T.sections[cur].start_time # None
         THEN Outcome(T, <<>>, Some("AlreadyExistsError"))
         ELSE LET T1 == [T EXCEPT !.sections[cur].start_time = Some(now)] IN
              IF T.logger = None
              THEN Outcome(T1, <<>>, Some("AttributeError"))
              ELSE Outcome(T1,
                           <<LogRecord(Get(T.logger), loglevel, StartedMsg(cur))>>,
                           None)

\* CodeSectionTimer.end, called when perf_counter() reads now
end(T, loglevel, now) ==
    IF T.current_section = None \/ Get(T.current_section) \notin DOMAIN T.sections
    THEN Outcome(T, <<>>, Some("KeyError"))
    ELSE LET cur == Get(T.current_section) IN
         IF T.sections[cur].end_time # None
         THEN Outcome(T, <<>>, Some("AlreadyExistsError"))
         ELSE LET T1 == [T EXCEPT !.sections[cur].end_time = Some(now)] IN
              IF T.sections[cur].start_time = None
              THEN Outcome(T1, <<>>, Some("TypeError"))
              ELSE LET seconds_elapsed == now - Get(T.sections[cur].start_time) IN
                   IF T.logger = None
                   THEN Outcome(T1, <<>>, Some("AttributeError"))
                   ELSE Outcome(T1,
                                <<LogRecord(Get(T.logger), loglevel,
                                            FinishedMsg(cur, seconds_elapsed))>>,
                                None)

----------------------------------------------------------------------------
(* Python values, and the value formatter: str_truncate, dynamic_str_truncate *)

\* every value carries the same fields; only those of its type are meaningful
PyValue(type, i, s, items) == [type |-> type, i |-> i, s |-> s, items |-> items]

PyInt(i) == PyValue("int", i, "", <<>>)

PyStr(s) == PyValue("str", 0, s, <<>>)

PyNone == PyValue("NoneType", 0, "None", <<>>)

\* a datetime.datetime, held as the text str() renders for it
PyDatetime(s) == PyValue("datetime", 0, s, <<>>)

\* a dict, held as the sequence of its <<key, value>> items in insertion order
PyDict(items) == PyValue("dict", 0, "", items)

\* str(input_obj) for the scalar values above
str(input_obj) ==
    IF input_obj.type = "int" THEN ToString(input_obj.i) ELSE input_obj.s

\* str_truncate
str_truncate(input_obj, max_nchar) ==
    LET input_str == IF input_obj.type \in {"int", "float"}
                     THEN str(input_obj)
                     ELSE "'" \o str(input_obj) \o "'"
    IN  IF Len(input_str) > max_nchar
        THEN SubSeq(input_str, 1, max_nchar) \o "..."
        ELSE input_str

\* the escapes json.dumps applies to printable ASCII
RECURSIVE JsonEscape(_)
JsonEscape(s) ==
    IF Len(s) = 0 THEN ""
    ELSE LET c == SubSeq(s, 1, 1)
         IN  (IF c = "\"" THEN "\\\"" ELSE IF c = "\\" THEN "\\\\" ELSE c)
                \o JsonEscape(SubSeq(s, 2, Len(s)))

JsonString(s) == "\"" \o JsonEscape(s) \o "\""

\* sep.join(strs)
RECURSIVE Join(_, _)
Join(sep, strs) ==
    IF Len(strs) = 0 THEN ""
    ELSE IF Len(strs) = 1 THEN strs[1]
    ELSE strs[1] \o sep \o Join(sep, Tail(strs))

\* json.dumps({...}, indent=4) of a dict of strings with distinct keys
JsonDumpsDict(items) ==
    IF Len(items) = 0 THEN "{}"
    ELSE "{\n"
          \o Join(",\n", [i \in 1..Len(items) |->
                "    " \o JsonString(items[i][1]) \o ": " \o JsonString(items[i][2])])
          \o "\n}"

\* dynamic_str_truncate, for a dict and for the scalars that fall to `case _`
dynamic_str_truncate(input_element, max_nchar) ==
    IF input_element.type = "dict"
    THEN JsonDumpsDict([i \in 1..Len(input_element.items) |->
            <<str_truncate(input_element.items[i][1], max_nchar),
              str_truncate(input_element.items[i][2], max_nchar)>>])
    ELSE str_truncate(input_element, max_nchar)

----------------------------------------------------------------------------
(* log_function_or_method_call *)

DefaultMaxNchar == 50

ShortMaxNchar == 3

\* the decorator's arguments
Decorator(logger, log_inputs, log_outputs, log_runtime_metrics, max_nchar) ==
    [logger |-> logger, loglevel |-> "INFO",
     log_inputs |-> log_inputs, log_outputs |-> log_outputs,
     log_inputs_max_nchar |-> max_nchar, log_outputs_max_nchar |-> max_nchar,
     log_runtime_metrics |-> log_runtime_metrics]

ExtractionFunctions ==
    {"extract_from_pos_system", "extract_mobile_events_data", "extract_web_events_data"}

\* "func" stands for any other callable the decorator is applied to
FuncNames == ExtractionFunctions \cup {"extract_data", "func"}

\* the decorators as src/src/extract.py applies them; "func" with the defaults
SourceDecorators ==
    [f \in FuncNames |->
        IF f \in ExtractionFunctions
        THEN Decorator("src.extract", FALSE, TRUE, TRUE, DefaultMaxNchar)
        ELSE IF f = "extract_data"
        THEN Decorator("src.extract", TRUE, FALSE, FALSE, DefaultMaxNchar)
        ELSE Decorator("src.extract", FALSE, FALSE, FALSE, DefaultMaxNchar)]

\* f"{x:.2f}" of x = hundredths / 100
Fixed2(hundredths) == ToString(hundredths \div 100) \o "." \o Pad(hundredths % 100, 2)

RenderedArgs(cfg, args) ==
    [i \in 1..Len(args) |-> dynamic_str_truncate(args[i], cfg.log_inputs_max_nchar)]

RenderedKwargs(cfg, kwargs) ==
    [i \in 1..Len(kwargs) |->
        dynamic_str_truncate(kwargs[i][1], cfg.log_inputs_max_nchar) \o "="
            \o dynamic_str_truncate(kwargs[i][2], cfg.log_inputs_max_nchar)]

\* prerun_log_message; kwargs is the sequence of <<key, value>> in call order
PrerunLogMessage(func, cfg, args, kwargs) ==
    "Called " \o func \o "("
        \o (IF cfg.log_inputs
            THEN Join(", ", RenderedArgs(cfg, args)) \o Join(", ", RenderedKwargs(cfg, kwargs))
            ELSE "")
        \o ")"

PostrunPrefix(func) == "Finished function/method " \o func \o "()"

\* postrun_log_message
PostrunLogMessage(func, cfg, func_output, total_execution_time_n_seconds) ==
    PostrunPrefix(func)
        \o (IF cfg.log_outputs
            THEN "\n    --Function/method Output--\n"
                    \o dynamic_str_truncate(func_output, cfg.log_outputs_max_nchar)
            ELSE "")
        \o (IF cfg.log_runtime_metrics
            THEN "\n    --Runtime metrics--\n    Total execution time: "
                    \o Fixed2(total_execution_time_n_seconds * 100) \o " seconds = "
                    \o Fixed2(RoundHalfEven(total_execution_time_n_seconds * 100, 60))
                    \o " minutes\n    (in future I want to add statistics here related to memory and CPU usage)"
            ELSE "")

\* an exception, with the function whose body raised it
Exc(type, raised_in) == [type |-> type, raised_in |-> raised_in]

\* one invocation of wrapper_log_function_call, while func runs
Frame(func, args, kwargs, prerun_log_message, pre_at, start_time) ==
    [func |-> func, args |-> args, kwargs |-> kwargs,
     prerun_log_message |-> prerun_log_message,
     pre_at |-> pre_at,          \* where in the log the pre-call record is
     start_time |-> start_time,
     phase |-> "running",        \* running, awaiting, resumed, returned or raised
     func_output |-> None,
     exc |-> None]

\* wrapper_log_function_call up to the call of func
Enter(func, args, kwargs) ==
    LET cfg == decorated[func]
        prerun_log_message == PrerunLogMessage(func, cfg, args, kwargs)
    IN  [log |-> Append(log, LogRecord(cfg.logger, cfg.loglevel, prerun_log_message)),
         frame |-> Frame(func, args, kwargs, prerun_log_message, Len(log) + 1, clock)]

\* a finished invocation, as its caller sees it
Completed(frame, raised, returned) ==
    [call |-> <<frame.func, frame.args, frame.kwargs>>,
     raised |-> raised, returned |-> returned,
     pre_at |-> frame.pre_at, depth |-> Len(stack)]

Top == stack[Len(stack)]

\* extract_from_pos_system, extract_mobile_events_data, extract_web_events_data
ExtractionOutput(func) ==
    IF func = "extract_from_pos_system"
    THEN PyDict(<< <<PyStr("status"), PyStr("SUCCESS")>>, <<PyStr("nrows"), PyInt(6239)>> >>)
    ELSE IF func = "extract_mobile_events_data"
    THEN PyDict(<< <<PyStr("status"), PyStr("FAILURE")>>, <<PyStr("nrows"), PyNone>> >>)
    ELSE PyDict(<< <<PyStr("status"), PyStr("SUCCESS")>>, <<PyStr("nrows"), PyInt(867111)>> >>)

SourceNames == {"pos_system", "mobile_events", "web_events"}

\* the match statement of extract_data
ExtractionFunctionFor(source_name) ==
    IF source_name = "pos_system" THEN "extract_from_pos_system"
    ELSE IF source_name = "mobile_events" THEN "extract_mobile_events_data"
    ELSE "extract_web_events_data"

----------------------------------------------------------------------------
(* Calls of the CodeSectionTimer methods *)

\* the outcome of one call, as the caller sees it
CallResult(call, raised, returned) ==
    [call |-> call, raised |-> raised, returned |-> returned]

NoCall == CallResult(<<>>, None, None)

\* where the entrypoint script is: the statement, the index of the data source
\* of its loop, the exception being handled or propagating
At(at, source, exc) == [at |-> at, source |-> source, exc |-> exc]

\* the entrypoint script is not running
Idle == At("idle", 0, None)

\* time passes: perf_counter() never goes backwards
Tick ==
    /\ clock < MaxClock
    /\ clock' = clock + 1
    /\ UNCHANGED <<code_section_timer, log, result, stack, decorated, loggers, pc>>

\* code_section_timer.set_logger(logger)
set_logger(logger) ==
    /\ code_section_timer' = [code_section_timer EXCEPT !.logger = Some(logger)]
    /\ result' = CallResult(<<"set_logger", logger>>, None, None)
    /\ UNCHANGED <<clock, log, stack, decorated, loggers, pc>>

\* code_section_timer.section(section_name)
Select(section_name) ==
    /\ code_section_timer' = section(code_section_timer, section_name)
    /\ result' = CallResult(<<"section", section_name>>, None, None)
    /\ UNCHANGED <<clock, log, stack, decorated, loggers, pc>>

\* code_section_timer.start(loglevel) on the selected section
Start(loglevel) ==
    LET o == start(code_section_timer, loglevel, clock) IN
    /\ code_section_timer' = o.timer
    /\ log' = log \o o.emitted
    /\ result' = CallResult(<<"start", code_section_timer.current_section>>, o.raised, None)
    /\ UNCHANGED <<clock, stack, decorated, loggers, pc>>

\* code_section_timer.end(loglevel) on the selected section
End(loglevel) ==
    LET o == end(code_section_timer, loglevel, clock) IN
    /\ code_section_timer' = o.timer
    /\ log' = log \o o.emitted
    /\ result' = CallResult(<<"end", code_section_timer.current_section>>, o.raised, None)
    /\ UNCHANGED <<clock, stack, decorated, loggers, pc>>

----------------------------------------------------------------------------
(* Calls of decorated functions *)

MaxLog == 1

\* positional and keyword arguments of the calls of "func": none, one, two
ArgLists == {<<>>, <<PyInt(7)>>, <<PyInt(7), PyStr("ab")>>}

KwargLists ==
    {<<>>,
     << <<PyStr("a"), PyInt(7)>> >>,
     << <<PyStr("a"), PyStr("ab")>>, <<PyStr("b"), PyInt(7)>> >>}

\* what "func" may return
ReturnValues == {PyStr("ab"), PyNone}

\* get_standard_period_dates, for a run on 2026-11-05
PeriodDates ==
    <<PyDatetime("2026-11-04 00:00:00+00:00"), PyDatetime("2026-11-05 00:00:00+00:00")>>

\* the calls a caller makes: <<function, args, kwargs>>
TopLevelCalls ==
    {<<"func", a, k>> : a \in ArgLists, k \in KwargLists}
        \cup {<<"extract_data", <<PyStr(s), PeriodDates[1], PeriodDates[2]>>, <<>>>> :
                s \in SourceNames \cup {"unknown_src"}}

\* a caller calls a decorated function: the wrapper logs and calls func
Invoke(func, args, kwargs) ==
    /\ pc = Idle
    /\ stack = <<>>
    /\ Len(log) <= MaxLog
    /\ LET e == Enter(func, args, kwargs) IN
          /\ log' = e.log
          /\ stack' = <<e.frame>>
    /\ UNCHANGED <<code_section_timer, clock, result, decorated, loggers, pc>>

\* the body of extract_data: the match statement and the call it makes
extract_data_body ==
    /\ stack # <<>>
    /\ Top.func = "extract_data" /\ Top.phase = "running"
    /\ LET source_name == Top.args[1].s IN
          IF source_name \in SourceNames
          THEN LET e == Enter(ExtractionFunctionFor(source_name),
                              <<Top.args[2], Top.args[3]>>, <<>>) IN
                  /\ log' = e.log
                  /\ stack' = Append([stack EXCEPT ![Len(stack)].phase = "awaiting"], e.frame)
          ELSE /\ log' = log
               /\ stack' = [stack EXCEPT ![Len(stack)].phase = "raised",
                                         ![Len(stack)].exc =
                                            Some(Exc("ValueError", "extract_data"))]
    /\ UNCHANGED <<code_section_timer, clock, result, decorated, loggers, pc>>

\* extract_data after the extraction function returned: it falls off its end
extract_data_return ==
    /\ stack # <<>>
    /\ Top.func = "extract_data" /\ Top.phase = "resumed"
    /\ stack' = [stack EXCEPT ![Len(stack)].phase = "returned",
                              ![Len(stack)].func_output = Some(PyNone)]
    /\ UNCHANGED <<code_section_timer, clock, log, result, decorated, loggers, pc>>

\* an extraction function sleeps 1 to 5 seconds and returns its record
ExtractionReturns ==
    /\ stack # <<>>
    /\ Top.func \in ExtractionFunctions /\ Top.phase = "running"
    /\ clock - Top.start_time \in 1..5
    /\ stack' = [stack EXCEPT ![Len(stack)].phase = "returned",
                              ![Len(stack)].func_output = Some(ExtractionOutput(Top.func))]
    /\ UNCHANGED <<code_section_timer, clock, log, result, decorated, loggers, pc>>

\* the sleep of an extraction function is interrupted
ExtractionInterrupted ==
    /\ stack # <<>>
    /\ Top.func \in ExtractionFunctions /\ Top.phase = "running"
    /\ stack' = [stack EXCEPT ![Len(stack)].phase = "raised",
                              ![Len(stack)].exc = Some(Exc("KeyboardInterrupt", Top.func))]
    /\ UNCHANGED <<code_section_timer, clock, log, result, decorated, loggers, pc>>

\* any other decorated callable returns a value
func_returns(value) ==
    /\ stack # <<>>
    /\ Top.func = "func" /\ Top.phase = "running"
    /\ stack' = [stack EXCEPT ![Len(stack)].phase = "returned",
                              ![Len(stack)].func_output = Some(value)]
    /\ UNCHANGED <<code_section_timer, clock, log, result, decorated, loggers, pc>>

\* any other decorated callable raises
func_raises ==
    /\ stack # <<>>
    /\ Top.func = "func" /\ Top.phase = "running"
    /\ stack' = [stack EXCEPT ![Len(stack)].phase = "raised",
                              ![Len(stack)].exc = Some(Exc("RuntimeError", "func"))]
    /\ UNCHANGED <<code_section_timer, clock, log, result, decorated, loggers, pc>>

\* the post-call record emitted whatever the flags are
PostrunRecords_Always(frame, cfg, end_time) ==
    <<LogRecord(cfg.logger, cfg.loglevel,
                PostrunLogMessage(frame.func, cfg, Get(frame.func_output),
                                  end_time - frame.start_time))>>

\* the records the wrapper emits after func returned func_output at end_time
PostrunRecords(frame, cfg, end_time) ==
    IF cfg.log_outputs \/ cfg.log_runtime_metrics
    THEN <<LogRecord(cfg.logger, cfg.loglevel,
                     PostrunLogMessage(frame.func, cfg, Get(frame.func_output),
                                       end_time - frame.start_time))>>
    ELSE <<>>

\* what the wrapper hands to its caller when func returned func_output
WrapperOutput(func_output) == func_output

\* the failure replaced by one of the wrapper's own
WrapperRaises_Translated(exc) == Some(Exc("RuntimeError", "wrapper_log_function_call"))

\* what the wrapper lets through when func raised exc
WrapperRaises(exc) == exc

\* the callers of the innermost invocation, the nearest one having received `phase`
Unwind(phase, func_output, exc) ==
    LET rest == SubSeq(stack, 1, Len(stack) - 1) IN
    IF Len(rest) = 0 THEN rest
    ELSE [rest EXCEPT ![Len(rest)].phase = phase,
                      ![Len(rest)].func_output = func_output,
                      ![Len(rest)].exc = exc]

\* wrapper_log_function_call after func returned
WrapperReturn ==
    /\ stack # <<>>
    /\ Top.phase = "returned"
    /\ log' = log \o PostrunRecords(Top, decorated[Top.func], clock)
    /\ result' = Completed(Top, None, WrapperOutput(Top.func_output))
    /\ stack' = Unwind("resumed", None, None)
    /\ UNCHANGED <<code_section_timer, clock, decorated, loggers, pc>>

\* wrapper_log_function_call when func raised: nothing catches it
WrapperPropagate ==
    /\ stack # <<>>
    /\ Top.phase = "raised"
    /\ result' = Completed(Top, WrapperRaises(Top.exc), None)
    /\ stack' = Unwind("raised", None, WrapperRaises(Top.exc))
    /\ UNCHANGED <<code_section_timer, clock, log, decorated, loggers, pc>>

InitCall ==
    /\ code_section_timer = NewTimer
    /\ clock = 0
    /\ log = <<>>
    /\ result = NoCall
    /\ stack = <<>>
    /\ decorated \in
         {[SourceDecorators EXCEPT !["func"] = Decorator("src.extract", i, o, r, ShortMaxNchar)] :
            i \in BOOLEAN, o \in BOOLEAN, r \in BOOLEAN}
    /\ loggers = <<>>
    /\ pc = Idle

NextCall ==
    \/ Tick
    \/ \E c \in TopLevelCalls : Invoke(c[1], c[2], c[3])
    \/ extract_data_body
    \/ extract_data_return
    \/ ExtractionReturns
    \/ ExtractionInterrupted
    \/ \E value \in ReturnValues : func_returns(value)
    \/ func_raises
    \/ WrapperReturn
    \/ WrapperPropagate

SpecCall == InitCall /\ [][NextCall]_vars

----------------------------------------------------------------------------
(* Properties of log_function_or_method_call, checked under SpecCall *)

IsPostrun(m, func) ==
    /\ Len(m) >= Len(PostrunPrefix(func))
    /\ SubSeq(m, 1, Len(PostrunPrefix(func))) = PostrunPrefix(func)

\* where, after position at, the log holds a post-call message of func
PostrunAfter(at, func) == {i \in (at + 1)..Len(log) : IsPostrun(log[i].msg, func)}

\* result is the outcome of an invocation that has just finished: its caller
\* has made no further call yet
JustCompleted == result.call # <<>> /\ Len(stack) = result.depth - 1

ResultFunc == result.call[1]

ResultCfg == decorated[ResultFunc]

PrerunRecord(func, args, kwargs) ==
    LogRecord(decorated[func].logger, decorated[func].loglevel,
              PrerunLogMessage(func, decorated[func], args, kwargs))

\* while func runs its pre-call record is in the log and no post-call record follows it
PrerunBeforeFuncRuns ==
    \A k \in 1..Len(stack) :
        /\ stack[k].pre_at \in 1..Len(log)
        /\ log[stack[k].pre_at] = PrerunRecord(stack[k].func, stack[k].args, stack[k].kwargs)
        /\ PostrunAfter(stack[k].pre_at, stack[k].func) = {}

\* after a normal return: the pre-call record, then a post-call record, the
\* last of the log, exactly if log_outputs or log_runtime_metrics
PostrunIffAsked ==
    (JustCompleted /\ result.raised = None) =>
        /\ log[result.pre_at] = PrerunRecord(result.call[1], result.call[2], result.call[3])
        /\ PostrunAfter(result.pre_at, ResultFunc) =
             IF ResultCfg.log_outputs \/ ResultCfg.log_runtime_metrics
             THEN {Len(log)} ELSE {}

\* the lines the invocation in result emitted
LinesEmitted == 1 + Cardinality(PostrunAfter(result.pre_at, ResultFunc))

\* C5 (as claimed): on a normal return the pre-call message precedes the run
\* of the function and a post-call message follows it iff log_outputs or
\* log_runtime_metrics; with log_inputs, log_outputs and log_runtime_metrics
\* all false exactly one line is emitted per call, and otherwise exactly two.
C5_OneLineIffAllFlagsFalse ==
    /\ PrerunBeforeFuncRuns
    /\ PostrunIffAsked
    /\ (JustCompleted /\ result.raised = None) =>
          LinesEmitted =
            IF ~ResultCfg.log_inputs /\ ~ResultCfg.log_outputs /\ ~ResultCfg.log_runtime_metrics
            THEN 1 ELSE 2

\* C5 (amended): on a normal return the pre-call message precedes the run of
\* the function and a post-call message follows it iff log_outputs or
\* log_runtime_metrics; so exactly one line is emitted per call when
\* log_outputs and log_runtime_metrics are both false, whatever log_inputs
\* is, and exactly two otherwise, pre-call first.
C5_OneLineIffNoPostrunFlag ==
    /\ PrerunBeforeFuncRuns
    /\ PostrunIffAsked
    /\ (JustCompleted /\ result.raised = None) =>
          LinesEmitted =
            IF ResultCfg.log_outputs \/ ResultCfg.log_runtime_metrics THEN 2 ELSE 1

\* a call with log_inputs alone has returned and emitted its single line
C5_Witness ==
    /\ JustCompleted /\ result.raised = None
    /\ ResultFunc = "func"
    /\ ResultCfg.log_inputs /\ ~ResultCfg.log_outputs /\ ~ResultCfg.log_runtime_metrics
    /\ LinesEmitted = 1

\* the failure the body of the called function ends with
BodyFailure(call) ==
    IF call[1] = "func" THEN Exc("RuntimeError", "func")
    ELSE IF call[1] \in ExtractionFunctions THEN Exc("KeyboardInterrupt", call[1])
    ELSE IF call[2][1].s \in SourceNames
    THEN Exc("KeyboardInterrupt", ExtractionFunctionFor(call[2][1].s))
    ELSE Exc("ValueError", "extract_data")

\* C6: if the wrapped function raises then, for every flag combination, the
\* pre-call message has been emitted, no post-call message is emitted for
\* the invocation, and the same failure reaches the caller unchanged; with
\* nested wrapped calls this holds at every nesting level.
C6_RaisePropagatesUnlogged ==
    (JustCompleted /\ result.raised # None) =>
        /\ log[result.pre_at] = PrerunRecord(result.call[1], result.call[2], result.call[3])
        /\ PostrunAfter(result.pre_at, ResultFunc) = {}
        /\ result.raised = Some(BodyFailure(result.call))
        /\ result.returned = None
        /\ stack # <<>> => /\ Top.phase = "raised"
                           /\ Top.exc = result.raised

\* extract_data has let the interruption of extract_from_pos_system through:
\* both pre-call records are in the log and nothing else
C6_Witness ==
    /\ JustCompleted
    /\ ResultFunc = "extract_data" /\ result.depth = 1
    /\ result.raised = Some(Exc("KeyboardInterrupt", "extract_from_pos_system"))
    /\ Len(log) = 2

\* C7: for each recognised source_name, extract_data invokes exactly the
\* matching extraction function and returns the record that function
\* produced; extract_data("pos_system", t0, t1) returns a result whose status
\* is "SUCCESS".
C7_ExtractDataReturnsRecord ==
    /\ \A k \in 1..Len(stack) :
          (k > 1 /\ stack[k - 1].func = "extract_data")
             => stack[k].func = ExtractionFunctionFor(stack[k - 1].args[1].s)
    /\ (JustCompleted /\ ResultFunc = "extract_data" /\ result.raised = None) =>
          LET source_name == result.call[2][1].s IN
          /\ result.returned = Some(ExtractionOutput(ExtractionFunctionFor(source_name)))
          /\ source_name = "pos_system" =>
                /\ Get(result.returned).type = "dict"
                /\ Get(result.returned).items[1] = <<PyStr("status"), PyStr("SUCCESS")>>

\* C9: when log_inputs is true the parameter list of "Called <name>(...)" is
\* the rendered positional arguments followed by the rendered key=value
\* pairs, every two adjacent rendered arguments separated by a comma; when
\* log_inputs is false the parameter list is empty.
C9_ParametersCommaSeparated ==
    \A k \in 1..Len(stack) :
        LET f == stack[k]
            cfg == decorated[f.func] IN
        f.prerun_log_message =
            "Called " \o f.func \o "("
                \o (IF cfg.log_inputs
                    THEN Join(", ", RenderedArgs(cfg, f.args) \o RenderedKwargs(cfg, f.kwargs))
                    ELSE "")
                \o ")"

----------------------------------------------------------------------------
(* create_default_logger *)

ModuleNames == {"__main__", "src.extract"}

HandlerNames == {"gcp", "stream", "file"}

MaxHandlers == 2

HandlerLists == UNION {[1..n -> HandlerNames] : n \in 0..MaxHandlers}

\* logging.getLogger: the logger of that name, created unconfigured at first use
getLogger(L, logger_name) ==
    IF logger_name \in DOMAIN L THEN L
    ELSE [n \in DOMAIN L \cup {logger_name} |->
            IF n \in DOMAIN L THEN L[n] ELSE [level |-> "NOTSET", handlers |-> <<>>]]

\* Logger.addHandler, for each of handlers in turn: a handler is added once
RECURSIVE addHandlers(_, _)
addHandlers(present, handlers) ==
    IF Len(handlers) = 0 THEN present
    ELSE addHandlers(IF \E i \in 1..Len(present) : present[i] = Head(handlers)
                     THEN present ELSE Append(present, Head(handlers)),
                     Tail(handlers))

\* create_default_logger on the registry L
create_default_logger(L, logger_name, handlers) ==
    LET L1 == getLogger(L, logger_name) IN
    IF Len(L1[logger_name].handlers) > 0
    THEN [loggers |-> L1, raised |-> Some("AlreadyExistsError"), returned |-> None]
    ELSE [loggers |-> [L1 EXCEPT ![logger_name] =
                            [level |-> "INFO", handlers |-> addHandlers(<<>>, handlers)]],
          raised |-> None, returned |-> Some(logger_name)]

\* a module calls create_default_logger(logger_name, handlers)
CreateDefaultLogger(logger_name, handlers) ==
    LET o == create_default_logger(loggers, logger_name, handlers) IN
    /\ pc = Idle
    /\ loggers' = o.loggers
    /\ result' = CallResult(<<"create_default_logger", logger_name, handlers>>,
                            o.raised, o.returned)
    /\ UNCHANGED <<code_section_timer, clock, log, stack, decorated, pc>>

InitLoggers ==
    /\ code_section_timer = NewTimer
    /\ clock = 0
    /\ log = <<>>
    /\ result = NoCall
    /\ stack = <<>>
    /\ decorated = SourceDecorators
    /\ loggers = <<>>
    /\ pc = Idle

NextLoggers ==
    \E logger_name \in ModuleNames, handlers \in HandlerLists :
        CreateDefaultLogger(logger_name, handlers)

SpecLoggers == InitLoggers /\ [][NextLoggers]_vars

\* an earlier create_default_logger(logger_name, ...) returned normally: only
\* that sets the level
Configured(logger_name) ==
    logger_name \in DOMAIN loggers /\ loggers[logger_name].level = "INFO"

\* C8: for every logger name and every handlers list, a second call of
\* create_default_logger with a name for which an earlier call succeeded
\* raises AlreadyExistsError and leaves that logger's level and handlers
\* unchanged.
C8_SecondCreateRejected ==
    [][\A logger_name \in ModuleNames, handlers \in HandlerLists :
        (CreateDefaultLogger(logger_name, handlers) /\ Configured(logger_name))
            => /\ result'.raised = Some("AlreadyExistsError")
               /\ loggers'[logger_name] = loggers[logger_name]]_vars

----------------------------------------------------------------------------
(* The entrypoint script, main.py *)

Sources == <<"pos_system", "mobile_events", "web_events">>

DailySection == "Daily ELT process"

ExtractSection == "Extract"

FailedSection == "FAILED to complete daily ELT process"

\* what a failed timer call raises, as an exception
TimerExc(o, method) == Exc(Get(o.raised), method)

\* the statement after a timer call: next, or the except block if it raised
AfterTimerCall(o, method, next) ==
    IF o.raised = None THEN next ELSE At("except", 0, Some(TimerExc(o, method)))

\* from src.extract import ...: extract.py creates its logger
ImportExtract ==
    /\ pc.at = "import"
    /\ loggers' = create_default_logger(loggers, "src.extract", <<"stream">>).loggers
    /\ pc' = At("create_logger", 0, None)
    /\ UNCHANGED <<code_section_timer, clock, log, result, stack, decorated>>

\* logger = create_default_logger(__name__)
MainCreateLogger ==
    /\ pc.at = "create_logger"
    /\ LET o == create_default_logger(loggers, "__main__", <<"stream">>) IN
          /\ loggers' = o.loggers
          /\ pc' = IF o.raised = None THEN At("set_logger", 0, None)
                   ELSE At("uncaught", 0, Some(Exc(Get(o.raised), "create_default_logger")))
    /\ UNCHANGED <<code_section_timer, clock, log, result, stack, decorated>>

\* code_section_timer.set_logger(logger)
MainSetLogger ==
    /\ pc.at = "set_logger"
    /\ code_section_timer' = [code_section_timer EXCEPT !.logger = Some("__main__")]
    /\ pc' = At("start_daily", 0, None)
    /\ UNCHANGED <<clock, log, result, stack, decorated, loggers>>

\* a statement code_section_timer.section(name).<method>() of the try block
MainTimerCall(at, o, method, next) ==
    /\ pc.at = at
    /\ code_section_timer' = o.timer
    /\ log' = log \o o.emitted
    /\ pc' = AfterTimerCall(o, method, next)
    /\ UNCHANGED <<clock, result, stack, decorated, loggers>>

\* code_section_timer.section("Daily ELT process").start()
MainStartDaily ==
    MainTimerCall("start_daily",
                  start(section(code_section_timer, DailySection), "INFO", clock),
                  "CodeSectionTimer.start", At("start_extract", 0, None))

\* code_section_timer.section("Extract").start()
MainStartExtract ==
    MainTimerCall("start_extract",
                  start(section(code_section_timer, ExtractSection), "INFO", clock),
                  "CodeSectionTimer.start", At("period_dates", 0, None))

\* period_start_incl, period_end_excl = get_standard_period_dates()
MainPeriodDates ==
    /\ pc.at = "period_dates"
    /\ pc' = At("call", 1, None)
    /\ UNCHANGED <<code_section_timer, clock, log, result, stack, decorated, loggers>>

\* extract_data(data_source_name, period_start_incl, period_end_excl) is called
MainCallExtract ==
    /\ pc.at = "call"
    /\ LET e == Enter("extract_data",
                      <<PyStr(Sources[pc.source]), PeriodDates[1], PeriodDates[2]>>, <<>>) IN
          /\ log' = e.log
          /\ stack' = <<e.frame>>
    /\ pc' = At("wait", pc.source, None)
    /\ UNCHANGED <<code_section_timer, clock, result, decorated, loggers>>

\* extract_data has finished: the loop goes on, ends, or the failure is caught
MainExtractDone ==
    /\ pc.at = "wait"
    /\ stack = <<>>
    /\ pc' = IF result.raised # None THEN At("except", 0, result.raised)
             ELSE IF pc.source < Len(Sources) THEN At("call", pc.source + 1, None)
             ELSE At("end_extract", 0, None)
    /\ UNCHANGED <<code_section_timer, clock, log, result, stack, decorated, loggers>>

\* code_section_timer.section("Extract").end()
MainEndExtract ==
    MainTimerCall("end_extract",
                  end(section(code_section_timer, ExtractSection), "INFO", clock),
                  "CodeSectionTimer.end", At("end_daily", 0, None))

\* code_section_timer.section("Daily ELT process").end()
MainEndDaily ==
    MainTimerCall("end_daily",
                  end(section(code_section_timer, DailySection), "INFO", clock),
                  "CodeSectionTimer.end", At("done", 0, None))

ExceptionRecord == LogRecord("__main__", "ERROR", "Error in daily ELT process")

UncaughtRecord == LogRecord("__main__", "ERROR", "Uncaught exception")

\* the except block: end the "FAILED" section at ERROR, log the exception,
\* re-raise; a failure of the first statement leaves the block at once
MainExcept ==
    /\ pc.at = "except"
    /\ LET o == end(section(code_section_timer, FailedSection), "ERROR", clock) IN
          /\ code_section_timer' = o.timer
          /\ IF o.raised = None
             THEN /\ log' = log \o o.emitted \o <<ExceptionRecord>>
                  /\ pc' = At("uncaught", 0, pc.exc)
             ELSE /\ log' = log \o o.emitted
                  /\ pc' = At("uncaught", 0, Some(TimerExc(o, "CodeSectionTimer.end")))
    /\ UNCHANGED <<clock, result, stack, decorated, loggers>>

\* sys.excepthook logs the exception that left the script; the process ends
Excepthook ==
    /\ pc.at = "uncaught"
    /\ log' = Append(log, UncaughtRecord)
    /\ result' = CallResult(<<"__main__">>, pc.exc, None)
    /\ pc' = At("exit_error", 0, pc.exc)
    /\ UNCHANGED <<code_section_timer, clock, stack, decorated, loggers>>

InitMain ==
    /\ code_section_timer = NewTimer
    /\ clock = 0
    /\ log = <<>>
    /\ result = NoCall
    /\ stack = <<>>
    /\ decorated = SourceDecorators
    /\ loggers = <<>>
    /\ pc = At("import", 0, None)

NextMain ==
    \/ Tick
    \/ ImportExtract
    \/ MainCreateLogger
    \/ MainSetLogger
    \/ MainStartDaily
    \/ MainStartExtract
    \/ MainPeriodDates
    \/ MainCallExtract
    \/ extract_data_body
    \/ extract_data_return
    \/ ExtractionReturns
    \/ ExtractionInterrupted
    \/ WrapperReturn
    \/ WrapperPropagate
    \/ MainExtractDone
    \/ MainEndExtract
    \/ MainEndDaily
    \/ MainExcept
    \/ Excepthook

SpecMain == InitMain /\ [][NextMain]_vars

\* the step of the try block that failed raised this
OriginalFailures ==
    {Exc("KeyboardInterrupt", f) : f \in ExtractionFunctions}

\* C3: if a step inside the try block raises, the run emits, in this order,
\* an ERROR-level "Finished section 'FAILED to complete daily ELT process'"
\* message and the "Error in daily ELT process" exception log, and then
\* terminates by re-raising the original failure.
C3_FailureLoggedThenReraised ==
    pc.at = "exit_error" =>
        /\ \E i \in 1..Len(log), j \in 1..Len(log) :
              /\ i < j
              /\ log[i].level = "ERROR" /\ IsFinished(log[i].msg, FailedSection)
              /\ log[j] = ExceptionRecord
        /\ pc.exc # None /\ Get(pc.exc) \in OriginalFailures

----------------------------------------------------------------------------
(* A CodeSectionTimer under any sequence of set_logger, section, start, end *)

Init ==
    /\ code_section_timer = NewTimer
    /\ clock = 0
    /\ log = <<>>
    /\ result = NoCall
    /\ stack = <<>>
    /\ decorated = SourceDecorators
    /\ loggers = <<>>
    /\ pc = Idle

Next ==
    \/ Tick
    \/ \E logger \in LoggerNames : set_logger(logger)
    \/ \E section_name \in SectionNames : Select(section_name)
    \/ \E loglevel \in Levels : Start(loglevel)
    \/ \E loglevel \in Levels : End(loglevel)

Spec == Init /\ [][Next]_vars

----------------------------------------------------------------------------
(* Properties of CodeSectionTimer, checked under Spec *)

Sections == code_section_timer.sections

\* start() returned normally on name: it is the only place that emits "Started"
StartSucceeded(name) == \E i \in 1..Len(log) : IsStarted(log[i].msg, name)

\* end() returned normally on name: it is the only place that emits "Finished"
EndSucceeded(name) == \E i \in 1..Len(log) : IsFinished(log[i].msg, name)

AnyStart == \E loglevel \in Levels : Start(loglevel)

AnyEnd == \E loglevel \in Levels : End(loglevel)

\* C1: in every reachable state, a section whose end_time is set has its
\* start_time set: end() never records an end_time for a section that was
\* not started.
C1_EndOnlyAfterStart ==
    \A n \in DOMAIN Sections :
        Sections[n].end_time # None => Sections[n].start_time # None

\* (a step that is a call of start() on X sets result.call to <<"start", <<X>>>>)
\* C2: once start() has succeeded on X every later start() on X raises
\* AlreadyExistsError, and once end() has succeeded on X every later end() on
\* X raises AlreadyExistsError; the rejected call leaves X's start_time and
\* end_time unchanged and emits no log message.
C2_SecondCallRejected ==
    [][\A X \in SectionNames :
        /\ (result'.call = <<"start", Some(X)>> /\ AnyStart /\ StartSucceeded(X))
             => /\ result'.raised = Some("AlreadyExistsError")
                /\ code_section_timer'.sections[X] = Sections[X]
                /\ log' = log
        /\ (result'.call = <<"end", Some(X)>> /\ AnyEnd /\ EndSucceeded(X))
             => /\ result'.raised = Some("AlreadyExistsError")
                /\ code_section_timer'.sections[X] = Sections[X]
                /\ log' = log]_vars

\* a second end() on X has just been rejected, after start() and end() both
\* succeeded on X and another section was used
C2_Witness ==
    /\ result.call = <<"end", Some("X")>>
    /\ result.raised = Some("AlreadyExistsError")
    /\ StartSucceeded("X") /\ EndSucceeded("X")
    /\ "Y" \in DOMAIN Sections /\ Sections["Y"].start_time # None

\* C4: section(name) on an existing name changes no start_time or end_time;
\* hence an end() on X that follows a successful start() on X, whatever was
\* done to other sections in between, succeeds and logs the elapsed time
\* end_time - start_time of X, which is >= 0.
C4_ResumeThenEnd ==
    [][/\ \A n \in SectionNames :
            (Select(n) /\ n \in DOMAIN Sections)
                => code_section_timer'.sections = Sections
       /\ \A X \in SectionNames :
            (result'.call = <<"end", Some(X)>> /\ AnyEnd
                    /\ StartSucceeded(X) /\ ~EndSucceeded(X))
                => /\ result'.raised = None
                   /\ Len(log') = Len(log) + 1
                   /\ LET s == code_section_timer'.sections[X] IN
                         /\ s.start_time = Sections[X].start_time
                         /\ Get(s.end_time) - Get(s.start_time) >= 0
                         /\ log'[Len(log')].msg =
                              FinishedMsg(X, Get(s.end_time) - Get(s.start_time))]_vars

\* C10: a "Finished section 'X'" message is emitted only if a "Started
\* section 'X'" message was emitted earlier for the same X, and each of the
\* two messages is emitted at most once per section name.
C10_FinishedOnlyAfterStarted ==
    \A X \in SectionNames :
        /\ \A i \in 1..Len(log) :
             IsFinished(log[i].msg, X)
                => \E j \in 1..(i - 1) : IsStarted(log[j].msg, X)
        /\ Cardinality({i \in 1..Len(log) : IsStarted(log[i].msg, X)}) <= 1
        /\ Cardinality({i \in 1..Len(log) : IsFinished(log[i].msg, X)}) <= 1

=============================================================================
